---------------------------- MODULE Spec2Model ----------------------------
(***************************************************************************)
(* Model of the ci-dashboard service clients.                              *)
(*                                                                         *)
(*   services/jenkins.py  JenkinsClient  (pipeline status reconciliation)   *)
(*   services/github.py   GitHubClient   (webhook health, version bump)     *)
(*   app.py               trigger_pipeline, get_mock_pipeline_status        *)
(*                                                                         *)
(* Every upstream HTTP call is a step whose response is chosen by the      *)
(* environment from a small set: either the request fails (requests raises *)
(* or raise_for_status raises) or it returns a decoded JSON payload.       *)
(* Python dicts are records whose DOMAIN is the dict's key set, so that    *)
(* "'error' in d" and d.get(k) are modelled by what they do.  None is      *)
(* NoneNum where an integer may stand and None where a string may stand.   *)
(* The pass-through fields duration, timestamp and url of a build and      *)
(* duration_ms and name content of a stage carry no decision and are not   *)
(* represented beyond the fields kept below.                               *)
(***************************************************************************)
EXTENDS Integers, Sequences, FiniteSets, TLC

\* ---------------------------------------------------------------- bounds
MaxBuild == 3
MaxNodes == 2

\* ------------------------------------------------------- Python helpers
\* None in an integer position (build numbers, start times).
NoneNum == 0 - 1
\* None in a string position (result, branch).
None == "None"

\* dict.get(k) and dict.get(k, default)
Get(d, k, default) == IF k \in DOMAIN d THEN d[k] ELSE default

\* Python truthiness of an optional integer: None and 0 are falsy.
Truthy(n) == n # NoneNum /\ n # 0

EmptyDict == <<>>

\* An upstream call either raises or returns a payload.
Failure == [ok |-> FALSE]
Success(payload) == [ok |-> TRUE, data |-> payload]

\* --------------------------------------------------- Jenkins input sets
BuildNums == 1..MaxBuild
Results == {"SUCCESS", "FAILURE", "UNSTABLE", "ABORTED", "NOT_BUILT", None}

BuildDataClass == "hudson.plugins.git.util.BuildData"
OtherClass == "hudson.model.CauseAction"

\* action.get('_class', '').endswith('BuildData')
IsBuildData(cls) == cls = BuildDataClass

\* str.replace('origin/', '') on the branch names that occur
StripOrigin(name) ==
  CASE name = "origin/main" -> "main"
    [] name = "origin/dev" -> "dev"
    [] OTHER -> name

\* The actions of a lastBuild payload; sha1 and branches are the SHA1 and the
\* branch names of the action's lastBuiltRevision.
ActionLists ==
  { <<>>,
    << [cls |-> BuildDataClass, branches |-> <<"origin/main">>, sha1 |-> "abc123"] >>,
    << [cls |-> OtherClass, branches |-> <<>>],
       [cls |-> BuildDataClass, branches |-> <<"dev">>, sha1 |-> "def456"] >> }

LastBuildData ==
  [number : BuildNums, result : Results, building : BOOLEAN, actions : ActionLists]

LastBuildResps == {Failure} \cup {Success(d) : d \in LastBuildData}

\* lastSuccessfulBuild / lastFailedBuild / lastUnstableBuild payloads: the
\* number may be present (0 included) or missing.
MarkerData == {[number |-> n] : n \in 0..MaxBuild} \cup {EmptyDict}
MarkerResps == {Failure} \cup {Success(d) : d \in MarkerData}

\* Blue Ocean nodes of a run.
NodeTypes == {"STAGE", "PARALLEL"}
NodeStates == {"RUNNING", "QUEUED", "SKIPPED", "NOT_BUILT", "FINISHED", "PAUSED", None}
NodeResults == {"SUCCESS", "FAILURE", "UNSTABLE", "ABORTED", "NOT_BUILT", "UNKNOWN", None}
StartTimes == {NoneNum, 0, 100, 300}

SampleNodes ==
  { [type |-> "STAGE", displayName |-> "Build", state |-> "FINISHED",
     result |-> "SUCCESS", startTime |-> 300],
    [type |-> "STAGE", displayName |-> "Test", state |-> "RUNNING",
     result |-> None, startTime |-> 100],
    [type |-> "STAGE", displayName |-> "Deploy", state |-> "FINISHED",
     result |-> "FAILURE", startTime |-> NoneNum],
    [type |-> "PARALLEL", displayName |-> "Fork", state |-> "FINISHED",
     result |-> "SUCCESS", startTime |-> 100] }

SeqsUpTo(S, n) == UNION {[1..k -> S] : k \in 0..n}

NodeLists == SeqsUpTo(SampleNodes, MaxNodes)

\* The nodes a run may hold at position i of the payload.  A node is named
\* after its position.  Every (state, result) pair occurs; the pairs that map
\* to running, failed, success and pending occur with every start time; one
\* stage carries neither result nor startTime; one node is not a stage.
NodeName(i) == <<"node", i>>

TimedPairs ==
  {<<"RUNNING", None>>, <<"FINISHED", "FAILURE">>, <<"FINISHED", "SUCCESS">>,
   <<"QUEUED", None>>}

NodesAt(i) ==
  {[type |-> "STAGE", displayName |-> NodeName(i), state |-> st,
    result |-> r, startTime |-> 100] : st \in NodeStates, r \in NodeResults}
  \cup
  {[type |-> "STAGE", displayName |-> NodeName(i), state |-> p[1],
    result |-> p[2], startTime |-> t] : p \in TimedPairs, t \in StartTimes}
  \cup
  {[type |-> "STAGE", displayName |-> NodeName(i), state |-> "QUEUED"],
   [type |-> "PARALLEL", displayName |-> NodeName(i), state |-> "FINISHED",
    result |-> "SUCCESS", startTime |-> 100]}
NodesResps == {Failure} \cup {Success(d) : d \in NodeLists}

JenkinsError == "Jenkins API error"


\* ------------------------------------------------ JenkinsClient helpers
\* get_last_build, lines 46-54: the first BuildData action that carries a
\* non-empty branch list decides the branch; None when there is none.
RECURSIVE ExtractBranch(_)
ExtractBranch(actions) ==
  IF actions = <<>> THEN None
  ELSE LET action == Head(actions) IN
       IF IsBuildData(action.cls) /\ action.branches # <<>>
       THEN StripOrigin(action.branches[1])
       ELSE ExtractBranch(Tail(actions))

\* get_last_build: the dict it returns for a response of the lastBuild request.
get_last_build(resp) ==
  IF ~resp.ok THEN [error |-> JenkinsError]
  ELSE [number |-> Get(resp.data, "number", NoneNum),
        result |-> Get(resp.data, "result", None),
        building |-> Get(resp.data, "building", FALSE),
        branch |-> ExtractBranch(Get(resp.data, "actions", <<>>))]

\* Variant: a finished node with an unrecognised result passes its state on.
_map_blueocean_status_StatePassed(result, state) ==
  IF state = "RUNNING" THEN "running"
  ELSE IF state = "QUEUED" THEN "pending"
  ELSE IF state = "SKIPPED" \/ state = "NOT_BUILT" THEN "pending"
  ELSE IF state = "FINISHED" THEN
    CASE result = "SUCCESS" -> "success"
      [] result = "FAILURE" -> "failed"
      [] result = "UNSTABLE" -> "unstable"
      [] result = "ABORTED" -> "aborted"
      [] result = "NOT_BUILT" -> "pending"
      [] OTHER -> "finished"
  ELSE "unknown"

\* Lines 137-152.
_map_blueocean_status(result, state) ==
  IF state = "RUNNING" THEN "running"
  ELSE IF state = "QUEUED" THEN "pending"
  ELSE IF state = "SKIPPED" \/ state = "NOT_BUILT" THEN "pending"
  ELSE IF state = "FINISHED" THEN
    CASE result = "SUCCESS" -> "success"
      [] result = "FAILURE" -> "failed"
      [] result = "UNSTABLE" -> "unstable"
      [] result = "ABORTED" -> "aborted"
      [] result = "NOT_BUILT" -> "pending"
      [] OTHER -> "unknown"
  ELSE "unknown"

\* get_build_stages, lines 84-93: only STAGE nodes become stages.
RECURSIVE StagesOfNodes(_)
StagesOfNodes(nodes) ==
  IF nodes = <<>> THEN <<>>
  ELSE LET node == Head(nodes) IN
       (IF Get(node, "type", None) = "STAGE"
        THEN << [name |-> Get(node, "displayName", None),
                 status |-> _map_blueocean_status(Get(node, "result", None),
                                               Get(node, "state", None)),
                 start_time |-> Get(node, "startTime", NoneNum)] >>
        ELSE <<>>) \o StagesOfNodes(Tail(nodes))

\* The sort key of line 98: (0, start_time) for a truthy start_time, else (1, '').
StageKey(s) == IF Truthy(s.start_time) THEN <<0, s.start_time>> ELSE <<1, 0>>

KeyLess(a, b) == a[1] < b[1] \/ (a[1] = b[1] /\ a[2] < b[2])

\* list.sort is stable: an element goes before the first one with a greater key.
RECURSIVE InsertStage(_, _)
InsertStage(sorted, s) ==
  IF sorted = <<>> THEN <<s>>
  ELSE IF KeyLess(StageKey(s), StageKey(Head(sorted)))
       THEN <<s>> \o sorted
       ELSE <<Head(sorted)>> \o InsertStage(Tail(sorted), s)

RECURSIVE SortStagesFrom(_, _)
SortStagesFrom(sorted, rest) ==
  IF rest = <<>> THEN sorted
  ELSE SortStagesFrom(InsertStage(sorted, Head(rest)), Tail(rest))

SortStages(stages) == SortStagesFrom(<<>>, stages)

\* Lines 100-108: the first stage that is running or failed decides.
RECURSIVE OverallStatus(_)
OverallStatus(stages) ==
  IF stages = <<>> THEN "SUCCESS"
  ELSE IF Head(stages).status = "running" THEN "IN_PROGRESS"
  ELSE IF Head(stages).status = "failed" THEN "FAILED"
  ELSE OverallStatus(Tail(stages))

\* get_build_stages, lines 95-114: the stages appended are sorted and returned
\* with the overall status.
StagesReturn(bn, appended) ==
  LET sorted == SortStages(appended) IN
  [stages |-> sorted, build_number |-> bn, status |-> OverallStatus(sorted)]

\* get_build_stages from the nodes request on: what it returns for a response.
StagesResult(bn, resp) ==
  IF ~resp.ok THEN [stages |-> <<>>, error |-> JenkinsError]
  ELSE StagesReturn(bn, StagesOfNodes(resp.data))

\* _get_last_meaningful_build: the marker endpoints in the order queried.
Markers ==
  << [endpoint |-> "lastSuccessfulBuild", health |-> "healthy"],
     [endpoint |-> "lastFailedBuild", health |-> "failed"],
     [endpoint |-> "lastUnstableBuild", health |-> "unstable"] >>

\* Variant: a sort that puts the later of two equal build numbers first.
RECURSIVE InsertBuild_TiesReversed(_, _)
InsertBuild_TiesReversed(sorted, b) ==
  IF sorted = <<>> THEN <<b>>
  ELSE IF b[2] >= Head(sorted)[2]
       THEN <<b>> \o sorted
       ELSE <<Head(sorted)>> \o InsertBuild_TiesReversed(Tail(sorted), b)

\* builds.sort(key=lambda x: x[1], reverse=True): stable, descending.
RECURSIVE InsertBuild(_, _)
InsertBuild(sorted, b) ==
  IF sorted = <<>> THEN <<b>>
  ELSE IF b[2] > Head(sorted)[2]
       THEN <<b>> \o sorted
       ELSE <<Head(sorted)>> \o InsertBuild(Tail(sorted), b)

RECURSIVE SortBuildsFrom(_, _)
SortBuildsFrom(sorted, rest) ==
  IF rest = <<>> THEN sorted
  ELSE SortBuildsFrom(InsertBuild(sorted, Head(rest)), Tail(rest))

SortBuildsDesc(bs) == SortBuildsFrom(<<>>, bs)

\* Variant: the sort of line 201 left out.
_get_last_meaningful_build_Unsorted(bs) ==
  IF bs = <<>> THEN <<"unknown", NoneNum>> ELSE bs[1]

\* Variant: no default for an empty list, the result of the aborted build is
\* passed on.
_get_last_meaningful_build_NoDefault(bs) ==
  IF bs = <<>> THEN <<"aborted", NoneNum>> ELSE SortBuildsDesc(bs)[1]

\* Lines 197-202: what the lookup returns for the pairs it collected.
_get_last_meaningful_build(bs) ==
  IF bs = <<>> THEN <<"unknown", NoneNum>> ELSE SortBuildsDesc(bs)[1]

\* Lines 233-239: the dict get_pipeline_status returns.
PipelineStatus(h, lb, st) ==
  [health |-> h,
   last_build |-> lb,
   stages |-> Get(st, "stages", <<>>),
   build_number |-> Get(st, "build_number", NoneNum),
   branch |-> Get(lb, "branch", "main")]

\* Lines 209-231: the health of a latest build that is not delegated.
DirectHealth(lb) ==
  IF "error" \in DOMAIN lb THEN "unknown"
  ELSE IF lb.building THEN "building"
  ELSE IF lb.result = "SUCCESS" THEN "healthy"
  ELSE IF lb.result = "FAILURE" THEN "failed"
  ELSE IF lb.result = "UNSTABLE" THEN "unstable"
  ELSE "unknown"

\* Variant: the ABORTED test placed before the building test.
TakesAbortedBranch_BeforeBuilding(lb) ==
  /\ "error" \notin DOMAIN lb
  /\ lb.result = "ABORTED"

\* Line 215 is reached: not an error dict, not building, result ABORTED.
TakesAbortedBranch(lb) ==
  /\ "error" \notin DOMAIN lb
  /\ ~lb.building
  /\ lb.result = "ABORTED"

\* ---------------------------------------------------- GitHub input sets
MaxHooks == 2
\* get_webhook_deliveries(hook_id, per_page=3): at most three deliveries come back.
PerPage == 3

GitHubError == "GitHub API error"

\* The i-th configured webhook; config.url is present on the odd ones only.
HookAt(i) ==
  IF i % 2 = 1
  THEN [id |-> i, config |-> [url |-> "https://ci.example/github-webhook/"]]
  ELSE [id |-> i, config |-> EmptyDict]

HookLists == {[i \in 1..k |-> HookAt(i)] : k \in 0..MaxHooks}
HooksResps == {Failure} \cup {Success(d) : d \in HookLists}

\* A delivery with its status_code, or one that carries none.
StatusCodes == {200, 300}
DeliveryData == {[status_code |-> c] : c \in StatusCodes} \cup {EmptyDict}
DeliveryLists == SeqsUpTo(DeliveryData, PerPage)
DeliveryResps == {Failure} \cup {Success(d) : d \in DeliveryLists}

\* ------------------------------------------------- GitHubClient helpers
\* Line 133: is_success = 200 <= status_code < 300
is_success(status_code) == 200 <= status_code /\ status_code < 300

\* Variant: a failed delivery fetch counts as a failing hook.
HookFails_ErrorsToo(resp) ==
  \/ ~resp.ok
  \/ /\ resp.data # <<>>
     /\ ~(200 <= Get(resp.data[1], "status_code", 0)
          /\ Get(resp.data[1], "status_code", 0) < 300)

\* Lines 131-136: the most recent delivery sets any_failing.
HookFails(resp) ==
  /\ resp.ok
  /\ resp.data # <<>>
  /\ ~is_success(Get(resp.data[1], "status_code", 0))

\* Variant: the oldest delivery of the page is inspected instead of the newest.
HookVerdict_Oldest(hook, resp) ==
  LET hook_id == hook.id
      hook_url == Get(Get(hook, "config", EmptyDict), "url", "unknown")
  IN IF ~resp.ok
     THEN [id |-> hook_id, url |-> hook_url, status |-> "error",
           message |-> GitHubError]
     ELSE IF resp.data = <<>>
     THEN [id |-> hook_id, url |-> hook_url, status |-> "unknown",
           message |-> "No recent deliveries"]
     ELSE LET status_code == Get(resp.data[Len(resp.data)], "status_code", 0) IN
          [id |-> hook_id, url |-> hook_url,
           status |-> IF 200 <= status_code /\ status_code < 300
                      THEN "healthy" ELSE "failing",
           last_delivery |-> [status_code |-> status_code]]

\* Lines 115-155: the verdict appended for one hook and its delivery fetch.
HookVerdict(hook, resp) ==
  LET hook_id == hook.id
      hook_url == Get(Get(hook, "config", EmptyDict), "url", "unknown")
  IN IF ~resp.ok
     THEN [id |-> hook_id, url |-> hook_url, status |-> "error",
           message |-> GitHubError]
     ELSE IF resp.data = <<>>
     THEN [id |-> hook_id, url |-> hook_url, status |-> "unknown",
           message |-> "No recent deliveries"]
     ELSE LET status_code == Get(resp.data[1], "status_code", 0) IN
          [id |-> hook_id, url |-> hook_url,
           status |-> IF is_success(status_code) THEN "healthy" ELSE "failing",
           last_delivery |-> [status_code |-> status_code]]

\* The loop of lines 114-155 over the hooks left, with the delivery responses
\* in the order the fetches are issued.
RECURSIVE HookLoop(_, _, _, _)
HookLoop(hooks, resps, webhook_statuses, any_failing) ==
  IF hooks = <<>> THEN [webhook_statuses |-> webhook_statuses,
                        any_failing |-> any_failing]
  ELSE HookLoop(Tail(hooks), Tail(resps),
                Append(webhook_statuses, HookVerdict(Head(hooks), Head(resps))),
                any_failing \/ HookFails(Head(resps)))

\* Variant: an empty hook list is reported like a failed fetch.
get_webhook_health_EmptyIsError(hooksResp, delivResps) ==
  IF ~hooksResp.ok \/ hooksResp.data = <<>>
  THEN [status |-> "error", reachable |-> FALSE, message |-> GitHubError]
  ELSE LET r == HookLoop(hooksResp.data, delivResps, <<>>, FALSE) IN
       [status |-> IF r.any_failing THEN "failing" ELSE "healthy",
        reachable |-> TRUE,
        webhooks |-> r.webhook_statuses]

\* get_webhook_health: the dict returned for the hook list response and the
\* delivery responses.
get_webhook_health(hooksResp, delivResps) ==
  IF ~hooksResp.ok
  THEN [status |-> "error", reachable |-> FALSE, message |-> GitHubError]
  ELSE IF hooksResp.data = <<>>
  THEN [status |-> "warning", reachable |-> TRUE,
        message |-> "No webhooks configured", webhooks |-> <<>>]
  ELSE LET r == HookLoop(hooksResp.data, delivResps, <<>>, FALSE) IN
       [status |-> IF r.any_failing THEN "failing" ELSE "healthy",
        reachable |-> TRUE,
        webhooks |-> r.webhook_statuses]

\* One delivery fetch is answered for every hook of a fetched list.
DeliveryRespsFor(hooksResp) ==
  IF hooksResp.ok THEN [1..Len(hooksResp.data) -> DeliveryResps] ELSE {<<>>}

\* Every dict get_webhook_health can return.
WebhookOutcomes ==
  UNION {{get_webhook_health(hr, drs) : drs \in DeliveryRespsFor(hr)} : hr \in HooksResps}

\* ------------------------------------------------ version file texts
\* Texts are sequences of one-character strings.
MaxLen == 5
MaxWrites == 2

Chars == {"0", "9", ".", "x", "\n"}
Texts == SeqsUpTo(Chars, MaxLen)

Digits == {"0", "1", "2", "3", "4", "5", "6", "7", "8", "9"}
DigitSeq == <<"0", "1", "2", "3", "4", "5", "6", "7", "8", "9">>
DigitVal(ch) == (CHOOSE i \in 1..Len(DigitSeq) : DigitSeq[i] = ch) - 1

IsSpace(ch) == ch = "\n"

RECURSIVE LStrip(_)
LStrip(t) == IF t # <<>> /\ IsSpace(Head(t)) THEN LStrip(Tail(t)) ELSE t

RECURSIVE RStrip(_)
RStrip(t) ==
  IF t # <<>> /\ IsSpace(t[Len(t)]) THEN RStrip(SubSeq(t, 1, Len(t) - 1)) ELSE t

\* str.strip()
Strip(t) == RStrip(LStrip(t))

\* str.split('.'): cur is the part being read, never dropped when empty.
RECURSIVE SplitFrom(_, _, _)
SplitFrom(parts, cur, rest) ==
  IF rest = <<>> THEN Append(parts, cur)
  ELSE IF Head(rest) = "." THEN SplitFrom(Append(parts, cur), <<>>, Tail(rest))
  ELSE SplitFrom(parts, Append(cur, Head(rest)), Tail(rest))

Split(t) == SplitFrom(<<>>, <<>>, t)

\* int(part) accepts surrounding whitespace and then needs digits only; it
\* raises ValueError on anything else over these characters.
IntAccepts(part) ==
  LET d == Strip(part) IN d # <<>> /\ \A i \in 1..Len(d) : d[i] \in Digits

RECURSIVE DigitsValue(_)
DigitsValue(d) ==
  IF d = <<>> THEN 0
  ELSE 10 * DigitsValue(SubSeq(d, 1, Len(d) - 1)) + DigitVal(d[Len(d)])

IntOf(part) == DigitsValue(Strip(part))

\* str(n) of a natural number, as the f-string of line 67 formats it.
RECURSIVE StrOf(_)
StrOf(n) == IF n < 10 THEN <<DigitSeq[n + 1]>>
            ELSE StrOf(n \div 10) \o <<DigitSeq[(n % 10) + 1]>>

\* base64 as a tagged value: only B64Decode opens what B64Encode made.
B64Encode(t) == [b64 |-> t]
B64Decode(e) == e.b64

\* The blob hash GitHub reports for a file: a function of its raw content.
Sha(raw) == [sha_of |-> raw]

InitialVersion == <<"0", ".", "0", ".", "1">>

\* bump_version, lines 64-69: the new version for the content read, or the
\* ValueError of int().
NewVersion(current_version) ==
  LET parts == Split(current_version) IN
  IF Len(parts) = 3
  THEN IF \A i \in 1..3 : IntAccepts(parts[i])
       THEN [raised |-> FALSE,
             new_version |-> StrOf(IntOf(parts[1])) \o <<".">> \o
                             StrOf(IntOf(parts[2])) \o <<".">> \o
                             StrOf(IntOf(parts[3]) + 1)]
       ELSE [raised |-> TRUE, exc |-> "ValueError"]
  ELSE [raised |-> FALSE, new_version |-> InitialVersion]

\* get_file_content, lines 35-40, for the payload GitHub sends for the file.
get_file_content(data) ==
  [content |-> Strip(B64Decode(data.content)), sha |-> data.sha]

\* update_file, lines 44-54: the body of the PUT.
update_file(new_content, sha) == [content |-> B64Encode(new_content), sha |-> sha]

\* trigger_pipeline, lines 190-193.
FailingHooks(wh) ==
  SelectSeq(Get(wh, "webhooks", <<>>), LAMBDA w : Get(w, "status", None) = "failing")

ClientIds == {1, 2}

\* ------------------------------------------------------------- state
VARIABLES
  pc,              \* position of the request being served
  request,         \* the client method the dashboard called
  last_build,      \* get_pipeline_status: last_build
  health,          \* get_pipeline_status: health
  meaningful,      \* what _get_last_meaningful_build returned
  mi,              \* _get_last_meaningful_build: index of the next marker
  builds,          \* _get_last_meaningful_build: builds
  build_number,    \* get_build_stages: build_number
  stages,          \* the dict get_build_stages returned
  status,          \* the dict get_pipeline_status returned
  calls,           \* Jenkins requests issued by this request, in order
  lastBuildIn,     \* response of the lastBuild request of get_pipeline_status
  node,            \* get_build_stages: node of the for loop
  ni,              \* get_build_stages: nodes of the payload iterated so far
  stages_list,     \* get_build_stages: stages, in the order appended
  start,           \* get_build_logs: start
  logs,            \* the dict get_build_logs returned
  limit,           \* get_build_history: limit
  listed,          \* get_build_history: builds of the payload iterated so far
  build,           \* get_build_history: build of the for loop
  history,         \* the list get_build_history returned
  _initialized,    \* KubernetesClient: self._initialized
  _init_error,     \* KubernetesClient: self._init_error
  has_api,         \* KubernetesClient: self.v1 and self.apps_v1 are set
  attempts,        \* configuration loads the KubernetesClient has begun
  k8s_calls,       \* calls of KubernetesClient methods so far
  k8s_result,      \* the dict the KubernetesClient method returned
  now,             \* time.time(), in seconds
  mock,            \* locals of get_mock_pipeline_status
  markerLog,       \* responses of the marker queries, in order
  hooksIn,         \* response of the webhook list fetch
  deliveriesIn,    \* responses of the delivery fetches, in hook order
  webhook_health,  \* the dict get_webhook_health returned
  clients,         \* the callers that bump the version file
  file,            \* raw content of the VERSION file on GitHub
  tpc,             \* per caller: position in trigger_pipeline / bump_version
  via,             \* per caller: bump_version called by trigger_pipeline or directly
  hook_status,     \* per caller: trigger_pipeline: webhook_health.get('status')
  file_data,       \* per caller: bump_version: file_data
  new_version,     \* per caller: bump_version: new_version
  bump_result,     \* per caller: what bump_version returned or raised
  response,        \* per caller: what trigger_pipeline answered
  writeLog         \* the PUT requests GitHub received, in order

jvars == <<last_build, health, meaningful, mi, builds, build_number, stages,
           status, calls, markerLog>>
svars == <<lastBuildIn, node, ni, stages_list>>
lvars == <<start, logs>>
hvars == <<limit, listed, build, history>>
kclient == <<_initialized, _init_error, has_api, attempts, k8s_calls>>
kvars == <<kclient, k8s_result>>
xvars == <<lvars, hvars, kvars>>
mvars == <<now, mock>>
gvars == <<hooksIn, deliveriesIn, webhook_health>>
bvars == <<clients, file, tpc, via, hook_status, file_data, new_version,
           bump_result, response, writeLog>>
vars == <<pc, request, jvars, svars, xvars, mvars, gvars, bvars>>

NoLookup == <<>>
Unset == <<>>

Call(endpoint, arg, resp) == [endpoint |-> endpoint, arg |-> arg, ok |-> resp.ok]

\* No request is being served.
NoRequest ==
  /\ pc = "idle"
  /\ request = "none"
  /\ last_build = Unset
  /\ health = None
  /\ meaningful = NoLookup
  /\ mi = 1
  /\ builds = <<>>
  /\ build_number = NoneNum
  /\ stages = Unset
  /\ status = Unset
  /\ calls = <<>>
  /\ markerLog = <<>>
  /\ lastBuildIn = Unset
  /\ node = Unset
  /\ ni = 0
  /\ stages_list = <<>>
  /\ start = 0
  /\ logs = Unset
  /\ limit = 0
  /\ listed = <<>>
  /\ build = Unset
  /\ history = Unset
  /\ _initialized = FALSE
  /\ _init_error = None
  /\ has_api = FALSE
  /\ attempts = 0
  /\ k8s_calls = 0
  /\ k8s_result = Unset
  /\ now = 300
  /\ mock = Unset
  /\ hooksIn = Unset
  /\ deliveriesIn = <<>>
  /\ webhook_health = Unset

\* No caller is inside trigger_pipeline or bump_version.
CallersIdle ==
  /\ tpc = [c \in ClientIds |-> "idle"]
  /\ via = [c \in ClientIds |-> "none"]
  /\ hook_status = [c \in ClientIds |-> None]
  /\ file_data = [c \in ClientIds |-> Unset]
  /\ new_version = [c \in ClientIds |-> <<>>]
  /\ bump_result = [c \in ClientIds |-> Unset]
  /\ response = [c \in ClientIds |-> Unset]
  /\ writeLog = <<>>

\* The dashboard serving status requests one at a time.
Init ==
  /\ NoRequest
  /\ CallersIdle
  /\ clients = {}
  /\ file = <<>>

\* get_build_stages, line 71: the last build is looked up only when no build
\* number was passed.
StagesEntry(bn) == IF bn = NoneNum THEN "stages_last_build" ELSE "stages_nodes"

\* get_pipeline_status, lines 206-231: the latest build is fetched and the
\* branch of the if-chain is taken.
PipelineGetLastBuild ==
  /\ pc = "idle"
  /\ \E resp \in LastBuildResps :
       LET lb == get_last_build(resp) IN
       /\ request' = "get_pipeline_status"
       /\ last_build' = lb
       /\ lastBuildIn' = resp
       /\ calls' = Append(calls, Call("lastBuild", NoneNum, resp))
       /\ IF TakesAbortedBranch(lb)
          THEN /\ pc' = "meaningful"
               /\ UNCHANGED health
          ELSE /\ pc' = StagesEntry(NoneNum)
               /\ health' = DirectHealth(lb)
  /\ UNCHANGED <<meaningful, mi, builds, build_number, stages, status, markerLog>>
  /\ UNCHANGED <<node, ni, stages_list, mvars, xvars, gvars, bvars>>

\* Lines 188-195: the pair a marker response adds to builds.
CollectBuild(bs, marker, resp) ==
  IF resp.ok /\ Truthy(Get(resp.data, "number", 0))
  THEN Append(bs, <<marker.health, Get(resp.data, "number", 0)>>)
  ELSE bs

\* Variant: one try around the whole loop, so the first failure ends it.
MarkerLoopEnds_OnFailure(i, resp) == i = Len(Markers) \/ ~resp.ok

\* The for loop of line 183 ends after the last marker, whatever the response.
MarkerLoopEnds(i, resp) == i = Len(Markers)

\* _get_last_meaningful_build, one marker query; after the last one the
\* lookup returns (lines 197-202) and get_build_stages is entered (line 219).
MeaningfulQuery ==
  /\ pc = "meaningful"
  /\ \E resp \in MarkerResps :
       LET bs == CollectBuild(builds, Markers[mi], resp) IN
       /\ markerLog' = Append(markerLog, resp)
       /\ calls' = Append(calls, Call(Markers[mi].endpoint, NoneNum, resp))
       /\ IF MarkerLoopEnds(mi, resp)
          THEN /\ builds' = (IF bs = <<>> THEN bs ELSE SortBuildsDesc(bs))
               /\ meaningful' = _get_last_meaningful_build(bs)
               /\ health' = meaningful'[1]
               /\ build_number' = meaningful'[2]
               /\ pc' = StagesEntry(build_number')
               /\ UNCHANGED mi
          ELSE /\ builds' = bs
               /\ mi' = mi + 1
               /\ UNCHANGED <<meaningful, health, build_number, pc>>
  /\ UNCHANGED <<request, last_build, stages, status>>
  /\ UNCHANGED <<svars, mvars, xvars, gvars, bvars>>

\* get_build_stages, lines 71-76: no build number was given.  On a failed
\* lookup it returns at line 75 and get_pipeline_status returns too.
StagesGetLastBuild ==
  /\ pc = "stages_last_build"
  /\ \E resp \in LastBuildResps :
       LET lb == get_last_build(resp) IN
       /\ calls' = Append(calls, Call("lastBuild", NoneNum, resp))
       /\ IF "error" \in DOMAIN lb
          THEN /\ stages' = [stages |-> <<>>, error |-> lb.error]
               /\ status' = PipelineStatus(health, last_build, stages')
               /\ pc' = "done"
               /\ UNCHANGED build_number
          ELSE /\ build_number' = Get(lb, "number", NoneNum)
               /\ pc' = "stages_nodes"
               /\ UNCHANGED <<stages, status>>
  /\ UNCHANGED <<request, last_build, health, meaningful, mi, builds, markerLog>>
  /\ UNCHANGED <<svars, mvars, xvars, gvars, bvars>>

\* get_build_stages, lines 79-116, then get_pipeline_status returns
\* (lines 233-239).
StagesGetNodes ==
  /\ pc = "stages_nodes"
  /\ \E resp \in NodesResps :
       /\ calls' = Append(calls, Call("nodes", build_number, resp))
       /\ stages' = StagesResult(build_number, resp)
       /\ status' = PipelineStatus(health, last_build, stages')
  /\ pc' = "done"
  /\ UNCHANGED <<request, last_build, health, meaningful, mi, builds,
                 build_number, markerLog>>
  /\ UNCHANGED <<svars, mvars, xvars, gvars, bvars>>

\* get_webhook_health, lines 98-168.
GetWebhookHealth ==
  /\ pc = "idle"
  /\ \E hr \in HooksResps :
       \E drs \in DeliveryRespsFor(hr) :
         /\ hooksIn' = hr
         /\ deliveriesIn' = drs
         /\ webhook_health' = get_webhook_health(hr, drs)
  /\ request' = "get_webhook_health"
  /\ pc' = "done"
  /\ UNCHANGED <<jvars, svars, xvars, mvars, bvars>>

\* The result went to the caller; nothing of the request is kept.
Return ==
  /\ pc = "done"
  /\ pc' = "idle"
  /\ request' = "none"
  /\ last_build' = Unset
  /\ health' = None
  /\ meaningful' = NoLookup
  /\ mi' = 1
  /\ builds' = <<>>
  /\ build_number' = NoneNum
  /\ stages' = Unset
  /\ status' = Unset
  /\ calls' = <<>>
  /\ markerLog' = <<>>
  /\ lastBuildIn' = Unset
  /\ node' = Unset
  /\ ni' = 0
  /\ stages_list' = <<>>
  /\ mock' = Unset
  /\ start' = 0
  /\ logs' = Unset
  /\ limit' = 0
  /\ listed' = <<>>
  /\ build' = Unset
  /\ history' = Unset
  /\ k8s_result' = Unset
  /\ hooksIn' = Unset
  /\ deliveriesIn' = <<>>
  /\ webhook_health' = Unset
  /\ UNCHANGED <<kclient, now, bvars>>

Next ==
  \/ PipelineGetLastBuild
  \/ MeaningfulQuery
  \/ StagesGetLastBuild
  \/ StagesGetNodes
  \/ GetWebhookHealth
  \/ Return

Spec == Init /\ [][Next]_vars

\* ------------------------------------------- version bump (github.py)
VersionFile099 == <<"0", ".", "0", ".", "9", "\n">>
GarbageFile == <<"x">>

\* Calls of bump_version begun and not yet answered, plus the PUTs made.
StartedBumps ==
  Len(writeLog) + Cardinality({c \in clients : tpc[c] \in {"bump_read", "bump_write"}})

\* trigger_pipeline, lines 201-208: the answer for what bump_version did.
TriggerResponse(result) ==
  IF result.raised
  THEN [code |-> 500, success |-> FALSE, error |-> result.exc]
  ELSE [code |-> 200, success |-> TRUE,
        previous_version |-> result.value.previous_version,
        new_version |-> result.value.new_version]

\* bump_version ends, returning or raising; trigger_pipeline answers at once.
FinishBump(c, result) ==
  /\ bump_result' = [bump_result EXCEPT ![c] = result]
  /\ response' = [response EXCEPT ![c] =
                    IF via[c] = "trigger" THEN TriggerResponse(result) ELSE Unset]
  /\ tpc' = [tpc EXCEPT ![c] = "responded"]

\* Variant: the trigger is refused when GitHub could not be asked, and only then.
TriggerRefused_OnError(webhook_status) ==
  Get(webhook_status, "status", None) = "error"

\* Line 189: webhook_health.get('status') == 'failing'
TriggerRefused(webhook_status) ==
  Get(webhook_status, "status", None) = "failing"

\* trigger_pipeline, lines 186-198 (MOCK_MODE off): webhook health first.
TriggerCheckWebhook(c) ==
  /\ tpc[c] = "idle"
  /\ StartedBumps < MaxWrites
  /\ \E webhook_status \in WebhookOutcomes :
       /\ hook_status' = [hook_status EXCEPT ![c] = Get(webhook_status, "status", None)]
       /\ IF TriggerRefused(webhook_status)
          THEN /\ response' = [response EXCEPT ![c] =
                      [code |-> 503, success |-> FALSE,
                       webhook_status |-> FailingHooks(webhook_status)]]
               /\ tpc' = [tpc EXCEPT ![c] = "responded"]
               /\ UNCHANGED via
          ELSE /\ tpc' = [tpc EXCEPT ![c] = "bump_read"]
               /\ via' = [via EXCEPT ![c] = "trigger"]
               /\ UNCHANGED response
  /\ UNCHANGED <<clients, file, file_data, new_version, bump_result, writeLog>>
  /\ UNCHANGED <<pc, request, jvars, svars, mvars, xvars, gvars>>

\* bump_version called by itself, as the unit tests do.
BumpVersionCall(c) ==
  /\ tpc[c] = "idle"
  /\ StartedBumps < MaxWrites
  /\ tpc' = [tpc EXCEPT ![c] = "bump_read"]
  /\ via' = [via EXCEPT ![c] = "direct"]
  /\ UNCHANGED <<clients, file, hook_status, file_data, new_version, bump_result,
                 response, writeLog>>
  /\ UNCHANGED <<pc, request, jvars, svars, mvars, xvars, gvars>>

\* bump_version, lines 60-69: the file is read and the new version computed.
BumpRead(c) ==
  /\ tpc[c] = "bump_read"
  /\ \/ /\ FinishBump(c, [raised |-> TRUE, exc |-> "ConnectionError"])
        /\ UNCHANGED <<file_data, new_version>>
     \/ LET fd == get_file_content([content |-> B64Encode(file), sha |-> Sha(file)])
            nv == NewVersion(fd.content)
        IN /\ file_data' = [file_data EXCEPT ![c] = fd]
           /\ IF nv.raised
              THEN /\ FinishBump(c, nv)
                   /\ UNCHANGED new_version
              ELSE /\ new_version' = [new_version EXCEPT ![c] = nv.new_version]
                   /\ tpc' = [tpc EXCEPT ![c] = "bump_write"]
                   /\ UNCHANGED <<bump_result, response>>
  /\ UNCHANGED <<clients, file, via, hook_status, writeLog>>
  /\ UNCHANGED <<pc, request, jvars, svars, mvars, xvars, gvars>>

\* Variant: the hash is looked up again right before the write.
WriteSha_Fresh(c) == Sha(file)

\* Line 75: the hash sent with the write is the one the read returned.
WriteSha(c) == file_data[c].sha

Put(c, body, accepted) ==
  [client |-> c, sha |-> body.sha, before |-> file,
   content |-> B64Decode(body.content), accepted |-> accepted]

\* bump_version, lines 72-83: the PUT.  GitHub applies it only when the hash
\* sent is the hash of the file it holds, and answers 409 otherwise; the
\* request may fail before it arrives, and the answer may be lost after the
\* file was written (timeout).
BumpWrite(c) ==
  /\ tpc[c] = "bump_write"
  /\ LET body == update_file(new_version[c] \o <<"\n">>, WriteSha(c))
         returned == [raised |-> FALSE,
                      value |-> [previous_version |-> file_data[c].content,
                                 new_version |-> new_version[c]]]
     IN \/ /\ FinishBump(c, [raised |-> TRUE, exc |-> "ConnectionError"])
           /\ UNCHANGED <<file, writeLog>>
        \/ /\ body.sha = Sha(file)
           /\ file' = B64Decode(body.content)
           /\ writeLog' = Append(writeLog, Put(c, body, TRUE))
           /\ \/ FinishBump(c, returned)
              \/ FinishBump(c, [raised |-> TRUE, exc |-> "ReadTimeout"])
        \/ /\ body.sha # Sha(file)
           /\ writeLog' = Append(writeLog, Put(c, body, FALSE))
           /\ FinishBump(c, [raised |-> TRUE, exc |-> "HTTPError 409"])
           /\ UNCHANGED file
  /\ UNCHANGED <<clients, via, hook_status, file_data, new_version>>
  /\ UNCHANGED <<pc, request, jvars, svars, mvars, xvars, gvars>>

\* The caller got its answer; the locals of the call are gone.
ClientReturn(c) ==
  /\ tpc[c] = "responded"
  /\ tpc' = [tpc EXCEPT ![c] = "idle"]
  /\ via' = [via EXCEPT ![c] = "none"]
  /\ hook_status' = [hook_status EXCEPT ![c] = None]
  /\ file_data' = [file_data EXCEPT ![c] = Unset]
  /\ new_version' = [new_version EXCEPT ![c] = <<>>]
  /\ bump_result' = [bump_result EXCEPT ![c] = Unset]
  /\ response' = [response EXCEPT ![c] = Unset]
  /\ UNCHANGED <<clients, file, writeLog>>
  /\ UNCHANGED <<pc, request, jvars, svars, mvars, xvars, gvars>>

\* Two trigger requests in flight on one VERSION file.
InitBump ==
  /\ NoRequest
  /\ CallersIdle
  /\ clients = ClientIds
  /\ file \in {VersionFile099, GarbageFile}

NextBump ==
  \/ \E c \in clients : TriggerCheckWebhook(c)
  \/ \E c \in clients : BumpRead(c)
  \/ \E c \in clients : BumpWrite(c)
  \/ \E c \in clients : ClientReturn(c)

SpecBump == InitBump /\ [][NextBump]_vars

\* bump_version on every text the VERSION file may hold.
InitVersion ==
  /\ NoRequest
  /\ CallersIdle
  /\ clients = {1}
  /\ file \in Texts

NextVersion ==
  \/ \E c \in clients : BumpVersionCall(c)
  \/ \E c \in clients : BumpRead(c)
  \/ \E c \in clients : BumpWrite(c)
  \/ \E c \in clients : ClientReturn(c)

SpecVersion == InitVersion /\ [][NextVersion]_vars

\* ------------------------------------- get_build_stages (jenkins.py)
\* get_build_stages(build_number), lines 70-82 and 115-116: the nodes of the
\* run are requested.  The payload is read node by node in the loop below.
GetBuildStages ==
  /\ pc = "idle"
  /\ \E bn \in BuildNums :
       /\ build_number' = bn
       /\ \/ /\ calls' = Append(calls, Call("nodes", bn, Failure))
             /\ stages' = StagesResult(bn, Failure)
             /\ pc' = "done"
          \/ /\ calls' = Append(calls, [endpoint |-> "nodes", arg |-> bn, ok |-> TRUE])
             /\ pc' = "stages_loop"
             /\ UNCHANGED stages
  /\ request' = "get_build_stages"
  /\ UNCHANGED <<last_build, health, meaningful, mi, builds, status, markerLog>>
  /\ UNCHANGED <<svars, mvars, xvars, gvars, bvars>>

\* Lines 85-93: one iteration of the for loop over the payload.
StagesLoopNode ==
  /\ pc = "stages_loop"
  /\ ni < MaxNodes
  /\ \E n \in NodesAt(ni + 1) :
       /\ node' = n
       /\ stages_list' = stages_list \o StagesOfNodes(<<n>>)
  /\ ni' = ni + 1
  /\ UNCHANGED <<pc, request, jvars, lastBuildIn, mvars, xvars, gvars, bvars>>

\* Lines 95-114: the payload is exhausted; sort, overall status, return.
StagesSortReturn ==
  /\ pc = "stages_loop"
  /\ stages' = StagesReturn(build_number, stages_list)
  /\ pc' = "done"
  /\ UNCHANGED <<request, last_build, health, meaningful, mi, builds,
                 build_number, status, calls, markerLog>>
  /\ UNCHANGED <<svars, mvars, xvars, gvars, bvars>>

NextStages ==
  \/ GetBuildStages
  \/ StagesLoopNode
  \/ StagesSortReturn
  \/ Return

SpecStages == Init /\ [][NextStages]_vars

\* --------------------------------------- get_build_logs (jenkins.py)
MaxStart == 2

\* Byte offsets a polling client passes as start.
Offsets == 0..MaxStart

\* The headers of a progressiveText response.  X-Text-Size is absent, a
\* decimal number or text int() refuses; X-More-Data is absent or a word.
TextSizeValues == {StrOf(n) : n \in 0..(MaxStart + 1)} \cup {<<"x">>}
MoreDataValues == {"true", "True", "false"}

LogHeaders ==
  {EmptyDict}
  \cup {("X-Text-Size" :> ts) : ts \in TextSizeValues}
  \cup {("X-More-Data" :> md) : md \in MoreDataValues}
  \cup {("X-Text-Size" :> ts) @@ ("X-More-Data" :> md) :
          ts \in TextSizeValues, md \in MoreDataValues}

LogTexts == {"", "Started by user admin"}

LogTextResps ==
  {Failure} \cup {Success([text |-> t, headers |-> h]) : t \in LogTexts, h \in LogHeaders}

\* str.lower() on the header words that occur
Lower(word) == IF word = "True" THEN "true" ELSE word

\* Line 291: the dict returned when the last-build lookup failed.
LogsLookupFailed(lb) ==
  [text |-> "", next_start |-> 0, has_more |-> FALSE, error |-> lb.error]

\* Line 312: the dict returned from the except clause.
LogsFailed(st) ==
  [text |-> "", next_start |-> st, has_more |-> FALSE, error |-> JenkinsError]

\* Lines 294-312: what get_build_logs returns for a response of the log
\* request.  int() is applied to the header text, or to start when the
\* header is absent.
LogsResult(bn, st, resp) ==
  IF ~resp.ok THEN LogsFailed(st)
  ELSE LET headers == resp.data.headers IN
       IF "X-Text-Size" \in DOMAIN headers /\ ~IntAccepts(headers["X-Text-Size"])
       THEN LogsFailed(st)
       ELSE [text |-> resp.data.text,
             next_start |-> IF "X-Text-Size" \in DOMAIN headers
                            THEN IntOf(headers["X-Text-Size"]) ELSE st,
             has_more |-> Lower(Get(headers, "X-More-Data", "false")) = "true",
             build_number |-> bn]

\* pipeline_logs (app.py 222-226) calls get_build_logs(build_number, start).
GetBuildLogs ==
  /\ pc = "idle"
  /\ \E bn \in BuildNums \cup {NoneNum} :
       /\ build_number' = bn
       /\ pc' = IF bn = NoneNum THEN "logs_last_build" ELSE "logs_text"
  /\ \E st \in Offsets : start' = st
  /\ request' = "get_build_logs"
  /\ UNCHANGED <<last_build, health, meaningful, mi, builds, stages, status,
                 calls, markerLog, logs>>
  /\ UNCHANGED <<svars, hvars, kvars, mvars, gvars, bvars>>

\* Lines 288-292: no build number was given.
LogsGetLastBuild ==
  /\ pc = "logs_last_build"
  /\ \E resp \in LastBuildResps :
       LET lb == get_last_build(resp) IN
       /\ calls' = Append(calls, Call("lastBuild", NoneNum, resp))
       /\ last_build' = lb
       /\ IF "error" \in DOMAIN lb
          THEN /\ logs' = LogsLookupFailed(lb)
               /\ pc' = "done"
               /\ UNCHANGED build_number
          ELSE /\ build_number' = Get(lb, "number", NoneNum)
               /\ pc' = "logs_text"
               /\ UNCHANGED logs
  /\ UNCHANGED <<request, health, meaningful, mi, builds, stages, status,
                 markerLog, start>>
  /\ UNCHANGED <<svars, hvars, kvars, mvars, gvars, bvars>>

\* Lines 294-312: the progressiveText request.
LogsGetText ==
  /\ pc = "logs_text"
  /\ \E resp \in LogTextResps :
       /\ calls' = Append(calls, Call("progressiveText", build_number, resp))
       /\ logs' = LogsResult(build_number, start, resp)
  /\ pc' = "done"
  /\ UNCHANGED <<request, last_build, health, meaningful, mi, builds,
                 build_number, stages, status, markerLog, start>>
  /\ UNCHANGED <<svars, hvars, kvars, mvars, gvars, bvars>>

NextLogs ==
  \/ GetBuildLogs
  \/ LogsGetLastBuild
  \/ LogsGetText
  \/ Return

SpecLogs == Init /\ [][NextLogs]_vars

\* ------------------------------------- get_build_history (jenkins.py)
MaxLimit == 2

\* The server is asked for the range {0,limit}; what it lists is its own
\* affair, so the listing may run past limit.
MaxListed == MaxLimit + 2

Limits == 0..MaxLimit

\* The build the server lists at a position: newest first, numbers distinct.
HistoryBuildsAt(i) ==
  { [number |-> MaxListed + 1 - i, result |-> r, building |-> b,
     duration |-> IF b THEN 0 ELSE 7, timestamp |-> MaxListed + 1 - i] :
      r \in {"SUCCESS", "FAILURE", "ABORTED", None}, b \in BOOLEAN }

\* Lines 259 and 262: the builds the loop passes over.
Skipped(b) == b.building \/ b.result = "ABORTED"

\* Lines 265-270.
HistoryEntry(b) ==
  [number |-> b.number, result |-> b.result, duration_ms |-> b.duration,
   timestamp |-> b.timestamp]

\* seq[:n] of Python.
Slice(seq, n) ==
  IF n >= 0
  THEN SubSeq(seq, 1, IF n < Len(seq) THEN n ELSE Len(seq))
  ELSE SubSeq(seq, 1, IF Len(seq) + n > 0 THEN Len(seq) + n ELSE 0)

\* Variant: everything collected is returned.
HistoryReturned_All(collected, lim) == collected

\* Line 272.
HistoryReturned(collected, lim) == Slice(collected, lim)

\* get_build_history(limit) is called (app.py 269 passes 5).
GetBuildHistory ==
  /\ pc = "idle"
  /\ \E lim \in Limits : limit' = lim
  /\ request' = "get_build_history"
  /\ pc' = "history_request"
  /\ UNCHANGED <<jvars, listed, build, history>>
  /\ UNCHANGED <<svars, lvars, kvars, mvars, gvars, bvars>>

\* Lines 251-256 and 273-274: the request for the build list; it raises and
\* the empty list is returned, or the loop begins with builds = [].
HistoryRequest ==
  /\ pc = "history_request"
  /\ \/ /\ history' = <<>>
        /\ pc' = "done"
        /\ UNCHANGED builds
     \/ /\ builds' = <<>>
        /\ pc' = "history_loop"
        /\ UNCHANGED history
  /\ UNCHANGED <<request, last_build, health, meaningful, mi, build_number,
                 stages, status, calls, markerLog, limit, listed, build>>
  /\ UNCHANGED <<svars, lvars, kvars, mvars, gvars, bvars>>

\* Lines 257-270: one pass of the loop over the next listed build.
HistoryLoopBuild ==
  /\ pc = "history_loop"
  /\ Len(listed) < MaxListed
  /\ \E b \in HistoryBuildsAt(Len(listed) + 1) :
       /\ build' = b
       /\ listed' = Append(listed, b)
       /\ builds' = IF Skipped(b) THEN builds ELSE Append(builds, HistoryEntry(b))
  /\ UNCHANGED <<pc, request, last_build, health, meaningful, mi, build_number,
                 stages, status, calls, markerLog, limit, history>>
  /\ UNCHANGED <<svars, lvars, kvars, mvars, gvars, bvars>>

\* Line 272: the listing is exhausted.
HistoryReturn ==
  /\ pc = "history_loop"
  /\ history' = HistoryReturned(builds, limit)
  /\ pc' = "done"
  /\ UNCHANGED <<request, jvars, limit, listed, build>>
  /\ UNCHANGED <<svars, lvars, kvars, mvars, gvars, bvars>>

NextHistory ==
  \/ GetBuildHistory
  \/ HistoryRequest
  \/ HistoryLoopBuild
  \/ HistoryReturn
  \/ Return

SpecHistory == Init /\ [][NextHistory]_vars

\* ------------------------------------- KubernetesClient (kubernetes.py)
MaxCalls == 3

K8sMethods == {"get_deployment_version", "get_health", "get_redis_status"}

\* str(e) of what the configuration load or the API constructors raise.
InitErrors == {"ConfigException: Invalid kube-config file", "PermissionError"}
ApiError == "ApiException"

\* x or default
OrElse(x, default) == IF Truthy(x) THEN x ELSE default

\* An image name as the parts ':' separates; image.split(':') is that list.
Images ==
  { <<"myregistry/web-app", "v1.2.3">>, <<"web-app">>,
    <<"registry", "5000/web-app", "v2">> }

Replicas == {NoneNum, 0, 2}

\* The deployment read: it fails, or gives the images of the containers and
\* the replica counts.
DeploymentResps ==
  {Failure} \cup
  {Success([containers |-> cs, ready_replicas |-> r, replicas |-> d]) :
     cs \in {<<>>} \cup {<<i>> : i \in Images}, r \in Replicas, d \in Replicas}

\* Lines 71-97 of get_deployment_version.
DeploymentVersion(deployment_name, resp) ==
  IF ~resp.ok THEN [version |-> "unknown", error |-> ApiError]
  ELSE LET containers == resp.data.containers IN
       IF containers = <<>>
       THEN [version |-> "unknown", error |-> "No containers found"]
       ELSE LET image == containers[1] IN
            [version |-> IF Len(image) > 1 THEN image[Len(image)] ELSE "latest",
             image |-> image,
             deployment |-> deployment_name,
             replicas |-> OrElse(resp.data.ready_replicas, 0),
             desired_replicas |-> OrElse(resp.data.replicas, 1)]

\* Lines 104-109 of get_health.
K8sHealth(resp) ==
  IF resp.ok THEN [status |-> "healthy", reachable |-> TRUE]
  ELSE [status |-> "unhealthy", reachable |-> FALSE, error |-> ApiError]

\* The pod list: it fails, or gives the pods with phase and the ready flags
\* of the containers (empty when the pod reports none: None and [] are both
\* falsy at line 48).
Pods ==
  { [phase |-> ph, container_statuses |-> c, name |-> "redis-0"] :
      ph \in {"Running", "Pending"},
      c \in {<<>>, <<TRUE>>, <<TRUE, FALSE>>} }

PodsResps == {Failure} \cup {Success(ps) : ps \in {<<>>} \cup {<<q>> : q \in Pods}}

\* Lines 38-64 of get_redis_status.
RedisStatus(resp) ==
  IF ~resp.ok THEN [status |-> "error", error |-> ApiError]
  ELSE IF resp.data = <<>>
  THEN [status |-> "not_found", message |-> "No Redis pods found"]
  ELSE LET pod == resp.data[1]
           cs == pod.container_statuses
           ready == IF cs = <<>> THEN FALSE ELSE \A k \in 1..Len(cs) : cs[k]
       IN [status |-> IF pod.phase = "Running" /\ ready THEN "healthy" ELSE "unhealthy",
           phase |-> pod.phase,
           ready |-> ready,
           pod_name |-> pod.name]

\* Lines 36, 69 and 102: what a method returns when _init_client returned False.
NotInitialized(method, error) ==
  CASE method = "get_redis_status" -> [status |-> "unknown", error |-> error]
    [] method = "get_deployment_version" -> [version |-> "unknown", error |-> error]
    [] method = "get_health" ->
         [status |-> "unhealthy", reachable |-> FALSE, error |-> error]

\* Variant: a failed load leaves the client uninitialized, to be tried again.
InitializedAfterFailure_Retry == FALSE

\* Line 30: self._initialized = True in the except clause.
InitializedAfterFailure == TRUE

\* A method of the client is called (app.py 256, one client per process).
K8sCall ==
  /\ pc = "idle"
  /\ k8s_calls < MaxCalls
  /\ \E method \in K8sMethods : request' = method
  /\ k8s_calls' = k8s_calls + 1
  /\ pc' = "k8s_init"
  /\ UNCHANGED <<_initialized, _init_error, has_api, attempts, k8s_result>>
  /\ UNCHANGED <<jvars, svars, lvars, hvars, mvars, gvars, bvars>>

\* _init_client, lines 13-14: initialized before, nothing is loaded.
InitClientDone ==
  /\ pc = "k8s_init"
  /\ _initialized
  /\ IF _init_error = None
     THEN /\ pc' = "k8s_api"
          /\ UNCHANGED k8s_result
     ELSE /\ k8s_result' = NotInitialized(request, _init_error)
          /\ pc' = "done"
  /\ UNCHANGED <<request, kclient>>
  /\ UNCHANGED <<jvars, svars, lvars, hvars, mvars, gvars, bvars>>

\* _init_client, lines 16-31: the configuration is loaded (in-cluster, else
\* kubeconfig) and the API objects are made, or something raises.
InitClientLoad ==
  /\ pc = "k8s_init"
  /\ ~_initialized
  /\ attempts' = attempts + 1
  /\ \/ /\ has_api' = TRUE
        /\ _initialized' = TRUE
        /\ pc' = "k8s_api"
        /\ UNCHANGED <<_init_error, k8s_result>>
     \/ \E e \in InitErrors :
          /\ _init_error' = e
          /\ _initialized' = InitializedAfterFailure
          /\ k8s_result' = NotInitialized(request, e)
          /\ pc' = "done"
          /\ UNCHANGED has_api
  /\ UNCHANGED <<request, k8s_calls>>
  /\ UNCHANGED <<jvars, svars, lvars, hvars, mvars, gvars, bvars>>

\* The API request of the method called.
K8sApi ==
  /\ pc = "k8s_api"
  /\ \/ /\ request = "get_deployment_version"
        /\ \E resp \in DeploymentResps :
             k8s_result' = DeploymentVersion("ci-dashboard", resp)
     \/ /\ request = "get_health"
        /\ \E resp \in {Failure, Success(<<>>)} : k8s_result' = K8sHealth(resp)
     \/ /\ request = "get_redis_status"
        /\ \E resp \in PodsResps : k8s_result' = RedisStatus(resp)
  /\ pc' = "done"
  /\ UNCHANGED <<request, kclient>>
  /\ UNCHANGED <<jvars, svars, lvars, hvars, mvars, gvars, bvars>>

NextK8s ==
  \/ K8sCall
  \/ InitClientDone
  \/ InitClientLoad
  \/ K8sApi
  \/ Return

SpecK8s == Init /\ [][NextK8s]_vars

\* ------------------------------------------------- mock mode (app.py)
MaxClock == 2

MOCK_STAGES ==
  << [name |-> "Check Trigger", status |-> "success", duration_ms |-> 2000],
     [name |-> "Verify BuildKit", status |-> "success", duration_ms |-> 5000],
     [name |-> "Build & Push", status |-> "success", duration_ms |-> 45000],
     [name |-> "Update K8s", status |-> "success", duration_ms |-> 8000] >>

\* sum(s['duration_ms'] for s in stages)
RECURSIVE SumDurations(_)
SumDurations(ss) ==
  IF ss = <<>> THEN 0 ELSE Head(ss).duration_ms + SumDurations(Tail(ss))

\* Lines 56-69: the dict get_mock_pipeline_status returns.
MockStatus(m, t) ==
  [health |-> m.health,
   last_build |->
     [number |-> 42,
      result |-> IF m.health = "healthy" THEN "SUCCESS"
                 ELSE IF m.health = "failed" THEN "FAILURE" ELSE None,
      building |-> m.is_building,
      duration |-> SumDurations(m.stages),
      timestamp |-> t * 1000 - 300000,
      branch |-> "main"],
   stages |-> m.stages,
   build_number |-> 42,
   branch |-> "main"]

\* time.time() moves on.
Tick ==
  /\ now < 300 + MaxClock
  /\ now' = now + 1
  /\ UNCHANGED <<pc, request, jvars, svars, mock, xvars, gvars, bvars>>

\* get_mock_pipeline_status, lines 22-32 and 45-49: the random draws.
\* random.randint(0, 3) has both ends included; stage i of the code is
\* element i + 1 here.
GetMockPipelineStatus ==
  /\ pc = "idle"
  /\ request' = "get_mock_pipeline_status"
  /\ \/ \E completed \in 0..3 :
          /\ mock' = [is_building |-> TRUE, health |-> "building",
                      stages |-> <<>>, completed |-> completed, i |-> 0]
          /\ pc' = "mock_building"
     \/ \E fail_idx \in 0..3 :
          /\ mock' = [is_building |-> FALSE, health |-> "failed",
                      stages |-> [MOCK_STAGES EXCEPT ![fail_idx + 1].status = "failed"],
                      fail_idx |-> fail_idx, i |-> fail_idx + 1]
          /\ pc' = "mock_failed"
     \/ \E h \in {"healthy", "building"} :
          /\ mock' = [is_building |-> FALSE, health |-> h, stages |-> MOCK_STAGES]
          /\ pc' = "mock_return"
  /\ UNCHANGED <<jvars, svars, now, xvars, gvars, bvars>>

\* Lines 33-43: one iteration of the loop over MOCK_STAGES, or its end.
MockBuildingLoop ==
  /\ pc = "mock_building"
  /\ IF mock.i < Len(MOCK_STAGES)
     THEN LET stage == MOCK_STAGES[mock.i + 1]
              st == IF mock.i < mock.completed THEN stage
                    ELSE IF mock.i = mock.completed
                    THEN [stage EXCEPT !.status = "running", !.duration_ms = 0]
                    ELSE [stage EXCEPT !.status = "pending", !.duration_ms = 0]
          IN /\ mock' = [mock EXCEPT !.stages = Append(@, st), !.i = @ + 1]
             /\ UNCHANGED pc
     ELSE /\ pc' = "mock_return"
          /\ UNCHANGED mock
  /\ UNCHANGED <<request, jvars, svars, now, xvars, gvars, bvars>>

\* Lines 50-52: one iteration of the loop over the stages after the failed
\* one, or its end.
MockFailedLoop ==
  /\ pc = "mock_failed"
  /\ IF mock.i < Len(mock.stages)
     THEN /\ mock' = [mock EXCEPT !.stages[mock.i + 1].status = "pending",
                                  !.stages[mock.i + 1].duration_ms = 0,
                                  !.i = @ + 1]
          /\ UNCHANGED pc
     ELSE /\ pc' = "mock_return"
          /\ UNCHANGED mock
  /\ UNCHANGED <<request, jvars, svars, now, xvars, gvars, bvars>>

\* Lines 56-69, returned by pipeline_status (app.py 165-166).
MockReturn ==
  /\ pc = "mock_return"
  /\ status' = MockStatus(mock, now)
  /\ pc' = "done"
  /\ UNCHANGED <<request, last_build, health, meaningful, mi, builds,
                 build_number, stages, calls, markerLog>>
  /\ UNCHANGED <<svars, mvars, xvars, gvars, bvars>>

NextMock ==
  \/ GetMockPipelineStatus
  \/ MockBuildingLoop
  \/ MockFailedLoop
  \/ MockReturn
  \/ Tick
  \/ Return

SpecMock == Init /\ [][NextMock]_vars

\* ------------------------------------------------------------ claims
PipelineDone == pc = "done" /\ request = "get_pipeline_status"
WebhookDone == pc = "done" /\ request = "get_webhook_health"

HealthValues == {"healthy", "building", "failed", "unstable", "unknown"}
WebhookStatusValues == {"healthy", "failing", "warning", "error"}

\* The marker queries that succeeded with a nonzero build number.
MarkerNumber(i) == Get(markerLog[i].data, "number", 0)
Contributing == {i \in 1..Len(markerLog) : markerLog[i].ok /\ Truthy(MarkerNumber(i))}
HighestMarker == CHOOSE n \in {MarkerNumber(i) : i \in Contributing} :
                   \A i \in Contributing : MarkerNumber(i) <= n

StageFetchFailed == "error" \in DOMAIN stages

\* C1: the health get_pipeline_status returns follows the rows of the table
\* in order, first match wins: latest-build fetch failed -> unknown; building
\* -> building whatever the result; ABORTED -> the health the
\* last-meaningful-build lookup returned; SUCCESS -> healthy; FAILURE ->
\* failed; UNSTABLE -> unstable; anything else -> unknown.  The lookup runs
\* in the ABORTED row only.
C1_HealthByFirstMatchingRow ==
  PipelineDone =>
    /\ status.health =
         (IF "error" \in DOMAIN status.last_build THEN "unknown"
          ELSE IF status.last_build.building THEN "building"
          ELSE IF status.last_build.result = "ABORTED" THEN meaningful[1]
          ELSE IF status.last_build.result = "SUCCESS" THEN "healthy"
          ELSE IF status.last_build.result = "FAILURE" THEN "failed"
          ELSE IF status.last_build.result = "UNSTABLE" THEN "unstable"
          ELSE "unknown")
    /\ (meaningful # NoLookup) <=>
         (/\ "error" \notin DOMAIN status.last_build
          /\ ~status.last_build.building
          /\ status.last_build.result = "ABORTED")

\* A build that is still building and already carries ABORTED reports building.
C1_Witness ==
  /\ PipelineDone
  /\ "error" \notin DOMAIN status.last_build
  /\ status.last_build.building
  /\ status.last_build.result = "ABORTED"
  /\ status.health = "building"

\* C2: latest build ABORTED and not building, and some marker query
\* succeeded with a nonzero number: the health is that of a pair with the
\* highest build number, the stages are requested for that build and for no
\* other (the latest build is not looked up again), and the build_number
\* returned is that number (null when the stage fetch failed).
C2_AbortedDelegatesToHighestMarker ==
  (PipelineDone /\ meaningful # NoLookup /\ Contributing # {}) =>
    /\ \E i \in Contributing :
         /\ MarkerNumber(i) = HighestMarker
         /\ status.health = Markers[i].health
    /\ calls[Len(calls)].endpoint = "nodes"
    /\ calls[Len(calls)].arg = HighestMarker
    /\ Cardinality({k \in 1..Len(calls) : calls[k].endpoint = "lastBuild"}) = 1
    /\ Cardinality({k \in 1..Len(calls) : calls[k].endpoint = "nodes"}) = 1
    /\ ~StageFetchFailed => /\ status.build_number = HighestMarker
                            /\ status.stages = stages.stages
    /\ StageFetchFailed => /\ status.build_number = NoneNum
                           /\ status.stages = <<>>

\* The example of the specification, with builds 1 and 2 under an aborted 3.
C2_Witness ==
  /\ PipelineDone
  /\ meaningful # NoLookup
  /\ status.last_build.number = 3
  /\ status.last_build.result = "ABORTED"
  /\ markerLog = <<Success([number |-> 1]), Success([number |-> 2]), Failure>>
  /\ status.health = "failed"
  /\ status.build_number = 2
  /\ status.stages # <<>>

\* C3 as stated: latest build ABORTED and no marker query contributes a
\* pair: health unknown and build_number null, whatever the stage fetch
\* returns.
C3_NoMeaningfulBuildNoNumber ==
  (PipelineDone /\ meaningful # NoLookup /\ Contributing = {}) =>
    /\ status.health = "unknown"
    /\ status.build_number = NoneNum

\* C4: when the lookup has returned, the three marker queries were issued in
\* order whatever failed, and builds holds exactly the pairs of the queries
\* that succeeded with a nonzero number; while it runs, builds holds those of
\* the queries issued so far, in query order.
C4_MarkerQueriesIsolated ==
  /\ (meaningful # NoLookup) =>
       /\ Len(markerLog) = Len(Markers)
       /\ \A i \in 1..Len(Markers) :
            /\ calls[i + 1].endpoint = Markers[i].endpoint
            /\ calls[i + 1].ok = markerLog[i].ok
       /\ {builds[k] : k \in 1..Len(builds)} =
            {<<Markers[i].health, MarkerNumber(i)>> : i \in Contributing}
       /\ Len(builds) = Cardinality(Contributing)
  /\ (pc = "meaningful") =>
       /\ Len(markerLog) = mi - 1
       /\ Len(builds) = Cardinality(Contributing)
       /\ \A k \in 1..Len(builds) :
            \E i \in Contributing : builds[k] = <<Markers[i].health, MarkerNumber(i)>>

\* The first query failed and the two after it still contributed.
C4_Witness ==
  /\ meaningful # NoLookup
  /\ ~markerLog[1].ok
  /\ Contributing = {2, 3}
  /\ Len(builds) = 2

\* C5 as stated: when the stage fetch failed the health is still the one
\* decided, the stage list is empty and the error detail of the stage fetch
\* is in the returned structure.
C5_StageFailureSurfaced ==
  (PipelineDone /\ StageFetchFailed) =>
    /\ status.health = health
    /\ status.stages = <<>>
    /\ \/ "error" \in DOMAIN status
       \/ "error" \in DOMAIN status.last_build

\* C6: no request ends in an exception, and what is returned is well formed:
\* a pipeline status has its five keys and a health of the vocabulary, a
\* webhook health has status and reachable and a status of the vocabulary.
C6_AlwaysWellFormed ==
  /\ pc \in {"idle", "meaningful", "stages_last_build", "stages_nodes", "done"}
  /\ PipelineDone =>
       /\ DOMAIN status = {"health", "last_build", "stages", "build_number", "branch"}
       /\ status.health \in HealthValues
  /\ WebhookDone =>
       /\ {"status", "reachable"} \subseteq DOMAIN webhook_health
       /\ webhook_health.status \in WebhookStatusValues
       /\ webhook_health.reachable \in BOOLEAN

\* Every call of an aborted latest build failed after the first.
C6_Witness ==
  /\ PipelineDone
  /\ Len(calls) = 5
  /\ \A k \in 2..Len(calls) : ~calls[k].ok
  /\ status.health = "unknown"

\* The verdict the claim gives for one delivery fetch.
ExpectedVerdict(resp) ==
  IF ~resp.ok THEN "error"
  ELSE IF Len(resp.data) = 0 THEN "unknown"
  ELSE IF /\ Get(resp.data[1], "status_code", 0) >= 200
          /\ Get(resp.data[1], "status_code", 0) <= 299
       THEN "healthy"
       ELSE "failing"

\* C9: one verdict per configured webhook, in hook order, each decided by
\* that hook's own delivery fetch: failed fetch -> error, no deliveries ->
\* unknown, else the first delivery alone: 200..299 -> healthy, else failing.
C9_OneVerdictPerHook ==
  (WebhookDone /\ hooksIn.ok /\ hooksIn.data # <<>>) =>
    /\ Len(webhook_health.webhooks) = Len(hooksIn.data)
    /\ \A i \in 1..Len(hooksIn.data) :
         /\ webhook_health.webhooks[i].id = hooksIn.data[i].id
         /\ webhook_health.webhooks[i].status = ExpectedVerdict(deliveriesIn[i])

\* The first hook's fetch failed; the second is judged by its first delivery
\* although an older one failed.
C9_Witness ==
  /\ WebhookDone
  /\ hooksIn.ok
  /\ Len(hooksIn.data) = 2
  /\ deliveriesIn[1] = Failure
  /\ deliveriesIn[2] = Success(<<[status_code |-> 200], [status_code |-> 300]>>)
  /\ webhook_health.webhooks[1].status = "error"
  /\ webhook_health.webhooks[2].status = "healthy"

\* C10: with a fetched, non-empty hook list the aggregate is failing exactly
\* when some verdict is failing, and healthy otherwise.
C10_AggregateFailingIffVerdictFailing ==
  (WebhookDone /\ hooksIn.ok /\ hooksIn.data # <<>>) =>
    /\ webhook_health.status \in {"failing", "healthy"}
    /\ (webhook_health.status = "failing") <=>
         (\E i \in 1..Len(webhook_health.webhooks) :
            webhook_health.webhooks[i].status = "failing")

\* Verdicts unknown and error only: the aggregate stays healthy.
C10_Witness ==
  /\ WebhookDone
  /\ hooksIn.ok
  /\ Len(webhook_health.webhooks) = 2
  /\ webhook_health.webhooks[1].status = "unknown"
  /\ webhook_health.webhooks[2].status = "error"
  /\ webhook_health.status = "healthy"

\* A PUT of caller c reaches GitHub in this step.
PutArrives(c) ==
  /\ tpc[c] = "bump_write"
  /\ writeLog' # writeLog
  /\ writeLog'[Len(writeLog')].client = c

\* The version after n bumps of a content.
RECURSIVE BumpedTimes(_, _)
BumpedTimes(content, n) ==
  IF n = 0 THEN content
  ELSE LET nv == NewVersion(content) IN
       IF nv.raised THEN content ELSE BumpedTimes(nv.new_version, n - 1)

AcceptedWrites == {k \in 1..Len(writeLog) : writeLog[k].accepted}

\* C7: the PUT of a bump carries the hash its own read returned; a PUT whose
\* read was overtaken by another write leaves the file as it is and the
\* request answers 500 with success false; one that was not overtaken
\* replaces the file.  So every write that took effect is the bump of the
\* content it replaced, and the file holds the first content bumped once per
\* write that took effect.
C7_StaleWriteFailsVisibly ==
  /\ [][\A c \in ClientIds :
          PutArrives(c) =>
            /\ writeLog'[Len(writeLog')].sha = file_data[c].sha
            /\ IF file_data[c].sha = Sha(file)
               THEN file' = new_version[c] \o <<"\n">>
               ELSE /\ file' = file
                    /\ response'[c].code = 500
                    /\ response'[c].success = FALSE]_vars
  /\ [](\A k \in AcceptedWrites :
          /\ ~NewVersion(Strip(writeLog[k].before)).raised
          /\ writeLog[k].content =
               NewVersion(Strip(writeLog[k].before)).new_version \o <<"\n">>)
  /\ [](writeLog # <<>> =>
          Strip(file) = BumpedTimes(Strip(writeLog[1].before),
                                    Cardinality(AcceptedWrites)))

\* Two callers read the same file; the second PUT is stale and answers 500.
C7_Witness ==
  /\ Len(writeLog) = 2
  /\ writeLog[1].accepted
  /\ ~writeLog[2].accepted
  /\ writeLog[1].client # writeLog[2].client
  /\ writeLog[2].sha = writeLog[1].sha
  /\ tpc[writeLog[2].client] = "responded"
  /\ response[writeLog[2].client].code = 500
  /\ file = writeLog[1].content

\* The new version the claim gives for a content: a.b.(c+1) for three
\* dot-separated integers, 0.0.1 for anything else.
ClaimedVersion(content) ==
  LET parts == Split(content) IN
  IF Len(parts) = 3 /\ \A i \in 1..3 : IntAccepts(parts[i])
  THEN StrOf(IntOf(parts[1])) \o <<".">> \o StrOf(IntOf(parts[2])) \o <<".">> \o
       StrOf(IntOf(parts[3]) + 1)
  ELSE InitialVersion

UpstreamFailures == {"ConnectionError", "ReadTimeout", "HTTPError 409"}

\* C8 as stated: a bump_version call that no GitHub request failed returns
\* the previous version and the new one, a.b.(c+1) or 0.0.1, and has written
\* the new one.
C8_BumpWritesClaimedVersion ==
  \A c \in clients :
    (/\ tpc[c] = "responded"
     /\ via[c] = "direct"
     /\ ~(bump_result[c].raised /\ bump_result[c].exc \in UpstreamFailures)) =>
      /\ ~bump_result[c].raised
      /\ bump_result[c].value.previous_version = file_data[c].content
      /\ bump_result[c].value.new_version = ClaimedVersion(file_data[c].content)
      /\ file = ClaimedVersion(file_data[c].content) \o <<"\n">>

\* C11: reachable is TRUE exactly when the hook list fetch succeeded.  A
\* fetched empty list gives status warning, reachable TRUE and an empty
\* webhooks list; a failed fetch gives status error, reachable FALSE; neither
\* status is given in any other case.
C11_ReachableIffListFetched ==
  WebhookDone =>
    /\ webhook_health.reachable <=> hooksIn.ok
    /\ (hooksIn.ok /\ hooksIn.data = <<>>) =>
         /\ webhook_health.status = "warning"
         /\ webhook_health.reachable = TRUE
         /\ "webhooks" \in DOMAIN webhook_health
         /\ webhook_health.webhooks = <<>>
    /\ ~hooksIn.ok =>
         /\ webhook_health.status = "error"
         /\ webhook_health.reachable = FALSE
    /\ (webhook_health.status = "warning") <=> (hooksIn.ok /\ hooksIn.data = <<>>)
    /\ (webhook_health.status = "error") <=> ~hooksIn.ok

\* The repository has no webhook: the list was fetched and is empty.
C11_Witness ==
  /\ WebhookDone
  /\ hooksIn = Success(<<>>)
  /\ webhook_health.status = "warning"
  /\ webhook_health.reachable

\* get_build_stages was called and returned the stages of a fetched payload.
StagesDone ==
  /\ pc = "done"
  /\ request = "get_build_stages"
  /\ "error" \notin DOMAIN stages

\* The loop of get_build_stages has just appended the stage of a STAGE node.
StageAppended ==
  /\ pc = "stages_loop"
  /\ node # Unset
  /\ node.type = "STAGE"

\* The table of the claim: the rows in order, the state first.
StateRows ==
  << [states |-> {"RUNNING"}, status |-> "running"],
     [states |-> {"QUEUED"}, status |-> "pending"],
     [states |-> {"SKIPPED", "NOT_BUILT"}, status |-> "pending"] >>

ResultRows ==
  << [result |-> "SUCCESS", status |-> "success"],
     [result |-> "FAILURE", status |-> "failed"],
     [result |-> "UNSTABLE", status |-> "unstable"],
     [result |-> "ABORTED", status |-> "aborted"],
     [result |-> "NOT_BUILT", status |-> "pending"] >>

TableStatus(result, state) ==
  IF \E i \in 1..Len(StateRows) : state \in StateRows[i].states
  THEN StateRows[CHOOSE i \in 1..Len(StateRows) : state \in StateRows[i].states].status
  ELSE IF state # "FINISHED" THEN "unknown"
  ELSE IF \E i \in 1..Len(ResultRows) : result = ResultRows[i].result
  THEN ResultRows[CHOOSE i \in 1..Len(ResultRows) : result = ResultRows[i].result].status
  ELSE "unknown"

\* C12: the status of every stage appended is the one the table gives for
\* the (result, state) of its node: RUNNING -> running; QUEUED -> pending;
\* SKIPPED or NOT_BUILT -> pending; FINISHED -> by result, unknown for a
\* result not listed or null; any other state -> unknown.  Outside FINISHED
\* the result makes no difference.
C12_StatusByStateThenResult ==
  StageAppended =>
    LET result == Get(node, "result", None)
        state == Get(node, "state", None)
        mapped == stages_list[Len(stages_list)].status
    IN /\ mapped = TableStatus(result, state)
       /\ state # "FINISHED" => mapped = TableStatus(None, state)

\* A finished node whose result is not in the sub-map gives unknown.
C12_Witness ==
  /\ StageAppended
  /\ node.state = "FINISHED"
  /\ Get(node, "result", None) = "UNKNOWN"
  /\ stages_list[Len(stages_list)].status = "unknown"

\* The place of a stage in the payload.
PayloadPos(s) == s.name[2]

\* C13 as stated: the stages returned are those appended, ascending by
\* start_time; a start_time that is present, 0 included, counts as started;
\* every stage without start_time comes after every started one, and the
\* stages without start_time keep the order of the payload.
C13_SortedStartedFirstStable ==
  StagesDone =>
    LET out == stages.stages
        Started(s) == s.start_time # NoneNum
    IN /\ Len(out) = Len(stages_list)
       /\ {out[i] : i \in 1..Len(out)} = {stages_list[i] : i \in 1..Len(stages_list)}
       /\ \A i, j \in 1..Len(out) :
            i < j =>
              /\ (Started(out[i]) /\ Started(out[j])) =>
                   out[i].start_time <= out[j].start_time
              /\ ~(~Started(out[i]) /\ Started(out[j]))
              /\ (~Started(out[i]) /\ ~Started(out[j])) =>
                   PayloadPos(out[i]) < PayloadPos(out[j])

\* C14 as stated: the overall status is IN_PROGRESS when some stage is
\* running, else FAILED when some stage is failed, else SUCCESS, wherever
\* the running and the failed stage stand in the sorted list.
C14_RunningBeforeFailed ==
  StagesDone =>
    LET out == stages.stages
        Some(st) == \E i \in 1..Len(out) : out[i].status = st
    IN stages.status = (IF Some("running") THEN "IN_PROGRESS"
                        ELSE IF Some("failed") THEN "FAILED"
                        ELSE "SUCCESS")

\* The branch the latest build's payload carries: that of its first
\* BuildData action with revision data, origin/ removed; null without one or
\* without a payload.
RevisionActions(resp) ==
  IF ~resp.ok THEN <<>>
  ELSE SelectSeq(Get(resp.data, "actions", <<>>),
                 LAMBDA a : IsBuildData(a.cls) /\ a.branches # <<>>)

LatestBranch(resp) ==
  IF RevisionActions(resp) = <<>> THEN None
  ELSE StripOrigin(RevisionActions(resp)[1].branches[1])

LatestSha(resp) ==
  IF RevisionActions(resp) = <<>> THEN None ELSE RevisionActions(resp)[1].sha1

\* C15 as stated: the branch get_pipeline_status returns is the branch of
\* the latest build's payload, also when health and stages come from the
\* meaningful build, and null when that payload carries none or the
\* latest-build fetch failed.
C15_BranchOfLatestBuildOrNull ==
  PipelineDone => status.branch = LatestBranch(lastBuildIn)

\* C16 as stated: for a fetched payload get_last_build returns branch and
\* commit_sha, both of the first BuildData action with revision data or both
\* null; for a failed request it returns a dict with error.
C16_BranchAndCommitSha ==
  (request = "get_pipeline_status") =>
    IF lastBuildIn.ok
    THEN /\ {"branch", "commit_sha"} \subseteq DOMAIN last_build
         /\ last_build.branch = LatestBranch(lastBuildIn)
         /\ last_build.commit_sha = LatestSha(lastBuildIn)
    ELSE "error" \in DOMAIN last_build

MockDone == pc = "done" /\ request = "get_mock_pipeline_status"

\* C17 as stated: every mock pipeline status has a health of healthy,
\* building or failed, stage statuses of success, running, failed or pending
\* only, and a last_build with a commit_sha field.
C17_MockStatusWellFormed ==
  MockDone =>
    /\ status.health \in {"healthy", "building", "failed"}
    /\ \A k \in 1..Len(status.stages) :
         status.stages[k].status \in {"success", "running", "failed", "pending"}
    /\ "commit_sha" \in DOMAIN status.last_build

\* C18: a trigger request whose webhook check reported failing answers 503
\* with success false at once, without reading the VERSION file and without
\* sending a PUT; a caller is inside bump_version only after its own check
\* returned another status, and so is every PUT that reaches GitHub and
\* every change of the file.
C18_NoBumpWhenWebhookFailing ==
  /\ [](\A c \in clients :
          /\ hook_status[c] = "failing" =>
               /\ tpc[c] = "responded"
               /\ response[c].code = 503
               /\ response[c].success = FALSE
               /\ via[c] = "none"
               /\ file_data[c] = Unset
               /\ bump_result[c] = Unset
          /\ tpc[c] \in {"bump_read", "bump_write"} =>
               hook_status[c] \in {"healthy", "warning", "error"})
  /\ [][/\ \A c \in clients :
            (hook_status[c] # "failing" /\ hook_status'[c] = "failing") =>
              (file' = file /\ writeLog' = writeLog)
        /\ file' # file => writeLog' # writeLog
        /\ \A c \in ClientIds :
            PutArrives(c) => hook_status[c] \in {"healthy", "warning", "error"}]_vars

\* One caller was refused with 503 while the other's bump went through.
C18_Witness ==
  \E c, d \in clients :
    /\ hook_status[c] = "failing"
    /\ response[c].code = 503
    /\ hook_status[d] = "healthy"
    /\ tpc[d] = "responded"
    /\ response[d].code = 200
    /\ Len(writeLog) = 1
    /\ writeLog[1].client = d

\* C19 as stated: the latest build was fetched and is not delegated to the
\* meaningful build, and the stage fetch succeeded: the build_number
\* returned is last_build.number and the stages were requested for that
\* build, whatever the second lastBuild request of the same call returned.
C19_StagesOfTheHealthBuild ==
  (/\ PipelineDone
   /\ meaningful = NoLookup
   /\ "error" \notin DOMAIN status.last_build
   /\ ~StageFetchFailed) =>
    /\ status.build_number = status.last_build.number
    /\ calls[Len(calls)].endpoint = "nodes"
    /\ calls[Len(calls)].arg = status.last_build.number

\* The first marker query, in query order, that returned the highest number.
FirstOfHighest ==
  CHOOSE i \in Contributing :
    /\ MarkerNumber(i) = HighestMarker
    /\ \A k \in Contributing : MarkerNumber(k) = HighestMarker => i <= k

\* C20: the lookup returns the highest build number the marker queries
\* gave, and when several queries gave it, the health of the first of them
\* in query order: healthy before failed before unstable.
C20_TieBrokenByQueryOrder ==
  (meaningful # NoLookup /\ Contributing # {}) =>
    /\ meaningful[2] = HighestMarker
    /\ meaningful[1] = Markers[FirstOfHighest].health
    /\ (PipelineDone => status.health = Markers[FirstOfHighest].health)

\* lastSuccessfulBuild and lastUnstableBuild point at one build, above the
\* last failed one.
C20_Witness ==
  /\ PipelineDone
  /\ meaningful # NoLookup
  /\ markerLog = <<Success([number |-> 2]), Success([number |-> 1]),
                   Success([number |-> 2])>>
  /\ meaningful = <<"healthy", 2>>
  /\ status.health = "healthy"

LogsDone == pc = "done" /\ request = "get_build_logs"

\* C21 as stated: whenever get_build_logs returns an error, on either
\* failure path, next_start is the start passed in and has_more is false.
C21_ErrorKeepsOffset ==
  (LogsDone /\ "error" \in DOMAIN logs) =>
    /\ logs.next_start = start
    /\ logs.has_more = FALSE

K8sDone == pc = "done" /\ request \in K8sMethods

\* C22: the configuration load is begun at most once, and only by a client
\* not yet initialized; once initialized the client stays so, with the same
\* error and the same API objects; and every call that ends while an
\* initialization error is stored returns that error in the dict of its
\* method, without a request to the API.
C22_InitializedOnce ==
  /\ [](attempts <= 1)
  /\ [](attempts = 1 <=> _initialized)
  /\ [][/\ attempts' # attempts => (~_initialized /\ attempts' = attempts + 1)
        /\ _initialized =>
             /\ _initialized'
             /\ _init_error' = _init_error
             /\ has_api' = has_api]_vars
  /\ []((_initialized /\ _init_error # None) =>
          /\ ~has_api
          /\ pc # "k8s_api"
          /\ K8sDone => k8s_result = NotInitialized(request, _init_error))
  /\ []((K8sDone /\ has_api) => "error" \notin DOMAIN k8s_result
                                  \/ k8s_result.error \notin InitErrors)

\* The first call failed to initialize; a later get_health returns the
\* stored error.
C22_Witness ==
  /\ K8sDone
  /\ k8s_calls = MaxCalls
  /\ attempts = 1
  /\ _init_error = "PermissionError"
  /\ request = "get_health"
  /\ k8s_result = [status |-> "unhealthy", reachable |-> FALSE,
                    error |-> "PermissionError"]

HistoryDone == pc = "done" /\ request = "get_build_history"

\* The listed builds the entries of history report, in order: a strictly
\* increasing choice of positions of listed.
HistoryPositions ==
  { f \in [1..Len(history) -> 1..Len(listed)] :
      /\ \A i \in 1..Len(history) : history[i] = HistoryEntry(listed[f[i]])
      /\ \A i, j \in 1..Len(history) : i < j => f[i] < f[j] }

\* C23: get_build_history(limit) returns at most limit entries; they report
\* listed builds in the order of the listing, none of them a build that is
\* building or ABORTED; and a request that fails ends the call with the
\* empty list.
C23_HistoryBoundedFiltered ==
  /\ [](HistoryDone =>
          /\ Len(history) <= limit
          /\ \E f \in HistoryPositions :
               \A i \in 1..Len(history) :
                 /\ ~listed[f[i]].building
                 /\ listed[f[i]].result # "ABORTED")
  /\ [][(pc = "history_request" /\ pc' # "history_loop") =>
          (pc' = "done" /\ history' = <<>>)]_vars

\* A building and an ABORTED build were passed over and the slice cut the
\* rest down to limit.
C23_Witness ==
  /\ HistoryDone
  /\ limit = 1
  /\ \E i \in 1..Len(listed) : listed[i].building
  /\ \E i \in 1..Len(listed) : ~listed[i].building /\ listed[i].result = "ABORTED"
  /\ Len(builds) > limit
  /\ Len(history) = 1
  /\ history[1] = builds[1]

=============================================================================
